---- MODULE Spec2Model ----
(***************************************************************************)
(* FredAPI.get_panel (src/fredapi/__init__.py): the paginated fetch of a   *)
(* series' revision history and the point-in-time panel built from it.     *)
(*                                                                         *)
(* Dates are day numbers.  On the wire a date is text ('YYYY-MM-DD'),      *)
(* modelled as the one-element tuple <<k>> of its day number; to_datetime  *)
(* turns the text into the day number.  The caller's observation dates are *)
(* a set of distinct days.  An Observation's value is 100 + its position   *)
(* in the series: get_panel never reads it, it only carries it along.      *)
(* Value dates are only ever compared with each other, so those of a       *)
(* series are numbered 1, 2, ... in date order.                            *)
(***************************************************************************)
EXTENDS Integers, Sequences, FiniteSets, TLC

\* ---- bounds of the model ----
MaxLen == 2        \* records in the series held by the server
MaxDay == 2        \* observation dates and realtime bounds are days 1..MaxDay
MaxWindow == 1     \* explicit window arguments are 0..MaxWindow, plus the default
MaxPage == 2       \* page sizes (records per response) are 1..MaxPage

\* ---- program constants ----
DefaultWindow == 24
NaN == 0           \* the missing 'value' cell of a pivoted row
NaT == 0           \* the missing 'date' cell of a pivoted row

Days == 1..MaxDay
OpenEnd == MaxDay + 1      \* the open-ended "still current" realtime_end
VDates == 1..MaxLen
Windows == (0..MaxWindow) \cup {DefaultWindow}

DateText(k) == <<k>>
to_datetime(s) == s[1]

Min(S) == CHOOSE x \in S : \A y \in S : x <= y
Max(S) == CHOOSE x \in S : \A y \in S : x >= y

\* The records a server may hold.
WireRecords ==
  { [date |-> DateText(vd), realtime_start |-> DateText(rs),
     realtime_end |-> DateText(re)] :
      vd \in VDates, rs \in Days, re \in (Days \cup {OpenEnd}) }

WellFormed(r) == to_datetime(r.realtime_start) <= to_datetime(r.realtime_end)

SeqsUpTo(S, n) == UNION { [1..k -> S] : k \in 0..n }

WithValues(s) ==
  [i \in 1..Len(s) |-> [date |-> s[i].date, realtime_start |-> s[i].realtime_start,
                        realtime_end |-> s[i].realtime_end, value |-> 100 + i]]

\* The value dates of t are 1..k for some k.
DenseDates(t) ==
  LET used == { to_datetime(t[i].date) : i \in 1..Len(t) }
  IN  used = 1..Cardinality(used)

AllSeries ==
  { WithValues(s) : s \in { t \in SeqsUpTo(WireRecords, MaxLen) :
                              /\ \A i \in 1..Len(t) : WellFormed(t[i])
                              /\ DenseDates(t) } }

VARIABLES series, server, observation_dates, window,
          pc, count, data, requests, result, err

vars == <<series, server, observation_dates, window,
          pc, count, data, requests, result, err>>

\* ---- the server (external): what it may answer to a request ----

Offset(req) == IF "offset" \in DOMAIN req THEN req.offset ELSE 0

\* A page of the series starting after `o` records, at most `limit` long.
PageAt(s, o, limit) ==
  SubSeq(s, o + 1, IF o + limit < Len(s) THEN o + limit ELSE Len(s))

\* Any run of at most MaxPage consecutive records of the series, or no record.
Slices(s) ==
  {<<>>} \cup { SubSeq(s, a, b) : a \in 1..Len(s), b \in 1..Len(s) }

AnyPages(s) == { pg \in Slices(s) : Len(pg) <= MaxPage }

\* The successful (2xx) JSON bodies the server may send for a request: the
\* page the offset asks for, or any page under any count not below its length.
Bodies(req) ==
  IF server.mode = "paged"
    THEN { [count |-> Len(series),
            observations |-> PageAt(series, Offset(req), server.limit)] }
    ELSE { b \in [count : 0..(MaxLen + 1), observations : AnyPages(series)] :
             b.count >= Len(b.observations) }

\* Requests one call may issue before the model stops following it.
RequestCap == MaxLen + 1

\* A series of n records with pairwise distinct value dates, always current.
PlainSeries(n) ==
  [i \in 1..n |-> [date |-> DateText(i), realtime_start |-> DateText(1),
                   realtime_end |-> DateText(OpenEnd), value |-> 100 + i]]

Servers ==
  { [mode |-> "paged", limit |-> p] : p \in 1..MaxPage }
    \cup { [mode |-> "any", limit |-> MaxPage] }

\* ---- the panel pipeline (pure) ----

\* lines 89-91: the three date columns become dates.
Convert(d) ==
  [i \in 1..Len(d) |-> [date |-> to_datetime(d[i].date),
                        realtime_start |-> to_datetime(d[i].realtime_start),
                        realtime_end |-> to_datetime(d[i].realtime_end),
                        value |-> d[i].value]]

\* The filter with realtime_start excluded.
Qualifying_after_start(cv, od) ==
  { j \in 1..Len(cv) : od > cv[j].realtime_start /\ od <= cv[j].realtime_end }

\* The filter with realtime_end excluded.
Qualifying_before_end(cv, od) ==
  { j \in 1..Len(cv) : od >= cv[j].realtime_start /\ od < cv[j].realtime_end }

\* lines 95-102: the rows of the cross product kept for observation date od,
\* as positions in the fetched frame (the frame's order is the positions').
Qualifying(cv, od) ==
  { j \in 1..Len(cv) : od >= cv[j].realtime_start /\ od <= cv[j].realtime_end }

\* The first n rows in frame order, whatever their dates.
nlargest_head(n, cv, S) == { j \in S : Cardinality({ k \in S : k < j }) < n }

\* nlargest with keep='last': of equal dates, the row fetched last.
RECURSIVE nlargest_keep_last(_, _, _)
nlargest_keep_last(n, cv, S) ==
  IF n = 0 \/ S = {} THEN {}
  ELSE LET top == Max({ cv[j].date : j \in S })
           last == Max({ j \in S : cv[j].date = top })
       IN  {last} \cup nlargest_keep_last(n - 1, cv, S \ {last})

\* x.nlargest(n, 'date'), keep='first': n times over, the first row holding
\* the largest remaining date.
RECURSIVE nlargest(_, _, _)
nlargest(n, cv, S) ==
  IF n = 0 \/ S = {} THEN {}
  ELSE LET top == Max({ cv[j].date : j \in S })
           first == Min({ j \in S : cv[j].date = top })
       IN  {first} \cup nlargest(n - 1, cv, S \ {first})

\* lines 104-108: the window filter of one group; skipped when window is falsy.
ApplyWindow(w, cv, S) == IF w # 0 THEN nlargest(w, cv, S) ELSE S

Kept(cv, od, w) == ApplyWindow(w, cv, Qualifying(cv, od))

\* lines 111-113: the orders sort_values('date', ascending=False) may leave one
\* group in: date descending, rows of equal date in an order left unspecified.
RECURSIVE SortedOrders(_, _)
SortedOrders(cv, S) ==
  IF S = {} THEN { <<>> }
  ELSE LET top == Max({ cv[j].date : j \in S })
       IN  UNION { { <<j>> \o t : t \in SortedOrders(cv, S \ {j}) } :
                     j \in { k \in S : cv[k].date = top } }

\* One order per observation date that kept a row: ord[od][r] is the row
\* given periods_back = r (cumcount + 1).
RECURSIVE Rankings(_, _, _)
Rankings(cv, ods, w) ==
  IF ods = {} THEN { <<>> }
  ELSE LET od == Min(ods)
           rest == Rankings(cv, ods \ {od}, w)
       IN  IF Kept(cv, od, w) = {} THEN rest
           ELSE { (od :> o) @@ f : f \in rest, o \in SortedOrders(cv, Kept(cv, od, w)) }

\* lines 116 and 122: pivot to one row per observation date and one column
\* pair per periods_back, then stack(future_stack=True): one long row per
\* (observation date, periods_back column), the cells a date lacks included.
\* The table is the function from its key: Stack(cv, ord)[od][r] is the row
\* keyed (od, r).
Columns(ord) == 1..Max({0} \cup { Len(ord[od]) : od \in DOMAIN ord })

Cell(cv, ord, od, r) ==
  IF r <= Len(ord[od])
    THEN [value |-> cv[ord[od][r]].value, date |-> cv[ord[od][r]].date]
    ELSE [value |-> NaN, date |-> NaT]

\* A table with rows for every observation date, seen or not.
Stack_every_date(cv, ord) ==
  [od \in observation_dates |->
     [r \in Columns(ord) |->
        IF od \in DOMAIN ord THEN Cell(cv, ord, od, r)
        ELSE [value |-> NaN, date |-> NaT]]]

Stack(cv, ord) ==
  [od \in DOMAIN ord |-> [r \in Columns(ord) |-> Cell(cv, ord, od, r)]]

\* ---- the call ----

\* The loop condition with >= for >.
MorePages_inclusive(c, d) == c >= Len(d)

\* line 83: the loop condition.
MorePages(c, d) == c > Len(d)

\* The offset one past the records held.
NextOffset_plus_one(d) == Len(d) + 1

\* line 84: the offset of a follow-up request.
NextOffset(d) == Len(d)

\* lines 67-73: the query of every request of one call.
Params ==
  [realtime_start |-> DateText(Min(observation_dates)),
   realtime_end |-> DateText(Max(observation_dates))]

\* Either the panel inputs vary, under a server that pages by MaxPage records,
\* or the server's behaviour varies, under a series of distinct value dates
\* seen in full by every day.
Init ==
  /\ \/ /\ series \in AllSeries
        /\ server = [mode |-> "paged", limit |-> MaxPage]
        /\ observation_dates \in SUBSET Days
        /\ window \in Windows
     \/ /\ series \in { PlainSeries(n) : n \in 0..MaxLen }
        /\ server \in Servers
        /\ observation_dates = Days
        /\ window = MaxWindow
  /\ pc = "start"
  /\ count = 0
  /\ data = <<>>
  /\ requests = <<>>
  /\ result = <<>>
  /\ err = "none"

\* A failure that is recorded and does not end the call.
Raise_and_go_on(e) ==
  /\ pc' = "paging"
  /\ err' = e
  /\ UNCHANGED <<count, data, result>>

\* raise_for_status and the other failures: the call ends in the error.
Raise(e) ==
  /\ pc' = "error"
  /\ err' = e
  /\ UNCHANGED <<count, data, result>>

\* lines 66-80: build the query and issue the first request.
FirstRequest ==
  /\ pc = "start"
  /\ UNCHANGED <<series, server, observation_dates, window>>
  /\ IF observation_dates = {}
       THEN \* line 71: min() of no dates is NaT, and NaT has no strftime
            /\ Raise("ValueError")
            /\ UNCHANGED requests
       ELSE /\ requests' = Append(requests, Params)
            /\ \/ Raise("HTTPError")                     \* line 75
               \/ \E body \in Bodies(Params) :
                    /\ count' = body.count               \* line 78
                    /\ data' = body.observations         \* line 80
                    /\ pc' = "paging"
                    /\ UNCHANGED <<result, err>>

\* lines 83-87: one turn of the pagination loop.
NextPage ==
  /\ pc = "paging"
  /\ MorePages(count, data)
  /\ Len(requests) < RequestCap
  /\ UNCHANGED <<series, server, observation_dates, window>>
  /\ LET req == [realtime_start |-> Params.realtime_start,
                 realtime_end |-> Params.realtime_end,
                 offset |-> NextOffset(data)]
     IN  /\ requests' = Append(requests, req)
         /\ \/ Raise("HTTPError")                        \* line 86
            \/ \E body \in Bodies(req) :
                 /\ data' = data \o body.observations    \* line 87
                 /\ UNCHANGED <<pc, count, result, err>>

\* lines 83, 89-122: the loop ends; convert, merge, filter, window, rank,
\* pivot and stack.
BuildPanel ==
  /\ pc = "paging"
  /\ ~MorePages(count, data)
  /\ UNCHANGED <<series, server, observation_dates, window, requests>>
  /\ IF Len(data) = 0
       THEN \* line 91: a frame built from no record has no column to convert
            Raise("KeyError")
       ELSE LET cv == Convert(data)
            IN  IF \A od \in observation_dates : Qualifying(cv, od) = {}
                  THEN \* no row survives line 102: the reshaping of an empty
                       \* frame either yields an empty table or fails
                       \/ /\ pc' = "done"
                          /\ result' = <<>>
                          /\ UNCHANGED <<count, data, err>>
                       \/ Raise("ReshapeError")
                  ELSE \E ord \in Rankings(cv, observation_dates, window) :
                         /\ pc' = "done"
                         /\ result' = Stack(cv, ord)
                         /\ UNCHANGED <<count, data, err>>

Next == FirstRequest \/ NextPage \/ BuildPanel

Spec == Init /\ [][Next]_vars

\* ---- properties of the fetch ----

\* The pagination loop is over: line 83's condition was found false.
LoopEnded ==
  \/ pc = "done"
  \/ pc = "paging" /\ ~(count > Len(data))
  \/ pc = "error" /\ err \in {"KeyError", "ReshapeError"}

Occurrences(d, r) == Cardinality({ j \in 1..Len(d) : d[j] = r })

\* C1 -- Pagination correctness: under a server that answers offset o with the
\* records at positions o .. min(o+p, N)-1 and declares count = N, the records
\* held when the loop ends are the N records of the series, each exactly once,
\* and every follow-up request carries offset = the number of records held.
C1_PaginationExact ==
  /\ [](server.mode = "paged" /\ LoopEnded =>
          /\ Len(data) = Len(series)
          /\ \A i \in 1..Len(series) : Occurrences(data, series[i]) = 1)
  /\ [][server.mode = "paged" /\ Len(requests') > Len(requests) /\ Len(requests) > 0 =>
          /\ "offset" \in DOMAIN requests'[Len(requests')]
          /\ requests'[Len(requests')].offset = Len(data)]_vars

\* A call that needed two requests, one record each, has ended its loop.
C1_Witness ==
  /\ server = [mode |-> "paged", limit |-> 1]
  /\ Len(series) = 2
  /\ LoopEnded
  /\ Len(requests) = 2
  /\ data = series

\* C2 (as claimed) -- whatever the successful responses, when the loop stops
\* the number of records retrieved equals the count the first response declared.
C2_StopsAtCount == LoopEnded => Len(data) = count

\* C2 (amended) -- whatever the successful responses, a follow-up request is
\* issued only while fewer than `count` records are held, and when the loop
\* stops at least `count` records are held: exactly `count` unless the last
\* response brought more records than were missing.
C2_StopsAtOrPastCount ==
  /\ LoopEnded => Len(data) >= count
  /\ \A i \in 2..Len(requests) :
       "offset" \in DOMAIN requests[i] /\ requests[i].offset < count
  /\ pc = "paging" /\ Len(data) < count /\ Len(requests) < RequestCap =>
       ENABLED NextPage

\* The loop ended holding more records than the first response declared.
C2_Witness ==
  /\ server.mode = "any"
  /\ LoopEnded
  /\ Len(requests) >= 2
  /\ Len(data) > count

\* C8 -- Fail-fast on HTTP error: once a request has failed the call has ended
\* in that error, no table is returned, pages already fetched or not, and no
\* further request is issued.
C8_FailFast ==
  /\ [](err = "HTTPError" => pc = "error" /\ result = <<>>)
  /\ [][err = "HTTPError" => requests' = requests]_vars

\* A follow-up request failed after a page of records had been fetched.
C8_Witness ==
  /\ err = "HTTPError"
  /\ pc = "error"
  /\ Len(requests) >= 2
  /\ Len(data) > 0

\* ---- properties of the panel ----

\* The dates of the fetched record j, as days.
ValueDate(j) == data[j].date[1]
RealtimeStart(j) == data[j].realtime_start[1]
RealtimeEnd(j) == data[j].realtime_end[1]

\* Observation j's realtime interval holds the day od, both ends included.
Sees(od, j) == RealtimeStart(j) <= od /\ od <= RealtimeEnd(j)

Seen(od) == { j \in 1..Len(data) : Sees(od, j) }

\* The rows of the returned table keyed by od, in periods_back order.
RowsOf(od) == IF od \in DOMAIN result THEN result[od] ELSE <<>>

\* The periods_back of od's rows that are not padding.
Filled(od) == { r \in 1..Len(RowsOf(od)) : RowsOf(od)[r].date # NaT }

\* Row r of od carries observation j.
Carries(od, r, j) ==
  RowsOf(od)[r].value = data[j].value /\ RowsOf(od)[r].date = ValueDate(j)

Shown(od, j) == \E r \in 1..Len(RowsOf(od)) : Carries(od, r, j)

NoWindowCut(od) == window = 0 \/ Cardinality(Seen(od)) <= window

\* C3 -- Interval inclusivity: an observation is shown for an observation date
\* only if realtime_start <= date <= realtime_end, and, where the window cuts
\* nothing, whenever it is: so it is shown on its realtime_start and on its
\* realtime_end, not the day before the one nor the day after the other.
C3_IntervalInclusive ==
  pc = "done" =>
    \A od \in observation_dates : \A j \in 1..Len(data) :
      /\ Shown(od, j) => Sees(od, j)
      /\ NoWindowCut(od) /\ Sees(od, j) => Shown(od, j)

\* One observation shown on its first and last day and not the day after, and
\* one shown on its first day and not the day before.
C3_Witness ==
  /\ pc = "done"
  /\ \E j \in 1..Len(data) :
       /\ RealtimeStart(j) = RealtimeEnd(j)
       /\ RealtimeEnd(j) + 1 \in observation_dates
       /\ Shown(RealtimeStart(j), j)
       /\ ~Shown(RealtimeEnd(j) + 1, j)
  /\ \E j \in 1..Len(data) :
       /\ RealtimeStart(j) - 1 \in observation_dates
       /\ RealtimeStart(j) \in observation_dates
       /\ Shown(RealtimeStart(j), j)
       /\ ~Shown(RealtimeStart(j) - 1, j)

DistinctDates(S) ==
  \A j \in S : \A k \in S : j # k => ValueDate(j) # ValueDate(k)

Later(S, j) == { k \in S : ValueDate(k) > ValueDate(j) }

C5_NoPadding ==
  pc = "done" =>
    \A od \in observation_dates :
      LET k == Cardinality(Seen(od))
      IN  0 < k /\ k < window => DOMAIN RowsOf(od) = 1..k

\* C6 -- Zero matches: an observation date that no observation sees has no row
\* in the returned table, nulls or other, while each date that some
\* observation sees has its rows, the first carrying its latest value date.
C6_ZeroMatches ==
  pc = "done" =>
    \A od \in observation_dates :
      LET S == Seen(od)
      IN  /\ S = {} => od \notin DOMAIN result
          /\ S # {} =>
               /\ Len(RowsOf(od)) >= 1
               /\ \E j \in S : Carries(od, 1, j) /\ Later(S, j) = {}

\* A table returned for two observation dates, one of them seen by nothing.
C6_Witness ==
  /\ pc = "done"
  /\ \E od \in observation_dates : Seen(od) = {} /\ RowsOf(od) = <<>>
  /\ \E od \in observation_dates : Seen(od) # {} /\ Len(RowsOf(od)) >= 1

\* C7 -- Empty input: a call with no observation date, and a call whose series
\* has no observation, never ends in an error of its own making (a failed
\* request apart) and returns an empty table.
C7_EmptyInputNoError ==
  (observation_dates = {} \/ (pc # "start" /\ count = 0 /\ data = <<>>)) =>
     /\ pc = "error" => err = "HTTPError"
     /\ pc = "done" => result = <<>>

\* The revisions of value date v among the fetched records.
Revisions(v) == { j \in 1..Len(data) : ValueDate(j) = v }

FirstPublished(v) == Min({ RealtimeStart(j) : j \in Revisions(v) })

\* The revisions of v have contiguous, non-overlapping realtime intervals, the
\* last of them open-ended: each day from the first publication to the open
\* end lies in exactly one of them.
RevisionChain(v) ==
  /\ Revisions(v) # {}
  /\ \A t \in FirstPublished(v)..OpenEnd :
       Cardinality({ j \in Revisions(v) : Sees(t, j) }) = 1

RevisionAt(v, od) == CHOOSE j \in Revisions(v) : Sees(od, j)

InsideWindow(v, od) ==
  window = 0 \/ Cardinality({ k \in Seen(od) : ValueDate(k) > v }) < window

\* C9 -- Point-in-time revision selection: for a value date whose revisions
\* form a chain ending in the open-ended marker, every observation date on or
\* after the first realtime_start has, if the value date falls inside the
\* window, exactly one row of that value date, and the row carries the value
\* of the revision whose interval holds the observation date.
C9_RevisionSelection ==
  pc = "done" =>
    \A v \in { ValueDate(j) : j \in 1..Len(data) } :
      RevisionChain(v) =>
        \A od \in observation_dates :
          od >= FirstPublished(v) /\ InsideWindow(v, od) =>
            LET rows == { r \in 1..Len(RowsOf(od)) : RowsOf(od)[r].date = v }
            IN  /\ Cardinality(rows) = 1
                /\ \A r \in rows : RowsOf(od)[r].value = data[RevisionAt(v, od)].value

\* Revision A, closed, then revision B, open-ended, of one value date: the
\* earlier observation date is given A's value and the later one B's.
C9_Witness ==
  /\ pc = "done"
  /\ \E v \in VDates : \E a \in Revisions(v) : \E b \in Revisions(v) :
       /\ RevisionChain(v)
       /\ RealtimeStart(b) = RealtimeEnd(a) + 1
       /\ RealtimeEnd(b) = OpenEnd
       /\ \E d1 \in observation_dates : \E d2 \in observation_dates :
            /\ Sees(d1, a) /\ Sees(d2, b)
            /\ InsideWindow(v, d1) /\ InsideWindow(v, d2)
            /\ Shown(d1, a) /\ ~Shown(d1, b)
            /\ Shown(d2, b) /\ ~Shown(d2, a)

\* The w-th largest value date seen by od, counted with repetitions.
BoundaryDate(od) ==
  Max({ v \in { ValueDate(j) : j \in Seen(od) } :
          Cardinality({ k \in Seen(od) : ValueDate(k) >= v }) >= window })

TieAtBoundary(od) ==
  /\ window > 0
  /\ Cardinality(Seen(od)) > window
  /\ Cardinality({ k \in Seen(od) : ValueDate(k) >= BoundaryDate(od) }) > window

\* C10 (as claimed) -- when observations seen by one observation date share
\* the value date at the window boundary, all the tied rows are retained.
C10_TiesAllRetained ==
  pc = "done" =>
    \A od \in observation_dates :
      TieAtBoundary(od) =>
        Cardinality(Filled(od)) =
          Cardinality({ k \in Seen(od) : ValueDate(k) >= BoundaryDate(od) })

\* The observations ahead of j in od's window order: a later value date, or
\* the same value date and fetched earlier.
Ahead(od, j) ==
  { k \in Seen(od) :
      \/ ValueDate(k) > ValueDate(j)
      \/ ValueDate(k) = ValueDate(j) /\ k < j }

\* C10 (amended) -- when observations seen by one observation date share the
\* value date at the window boundary, exactly `window` rows are retained for
\* that date: of the tied observations, those fetched first.
C10_TiesFirstRetained ==
  pc = "done" =>
    \A od \in observation_dates :
      TieAtBoundary(od) =>
        /\ Cardinality(Filled(od)) = window
        /\ { RowsOf(od)[r].value : r \in Filled(od) } =
             { data[j].value :
                 j \in { k \in Seen(od) : Cardinality(Ahead(od, k)) < window } }

\* Two observations of one value date seen by one observation date under
\* window = 1: one row, carrying the observation fetched first.
C10_Witness ==
  /\ pc = "done"
  /\ server.mode = "paged"
  /\ \E od \in observation_dates :
       /\ TieAtBoundary(od)
       /\ Cardinality(Seen(od)) = 2
       /\ Filled(od) = {1}
       /\ Carries(od, 1, Min(Seen(od)))
       /\ ~Carries(od, 1, Max(Seen(od)))
====
